---- MODULE Spec2Model ----
(***************************************************************************)
(* Quantile local projections (quantileproj.py): the three-stage pipeline  *)
(*   QuantileProj(depvar, indvar_l, data, horizon_l)   specification       *)
(*     .fit(quantile_l, alpha)                         QuantileFit         *)
(*     .proj(cond_frame)                               QuantileProjection  *)
(* A data frame is a record [index, columns, col]: the row labels, the     *)
(* column names in order, and for each column name its cells in row order. *)
(* Quantiles and alpha are written in hundredths (0.25 is 25), so the open *)
(* interval (0,1) is 0 < q < 100.  The quantile-regression solver and its  *)
(* prediction operation are external: a call either raises or returns a    *)
(* handle, and which one is chosen nondeterministically.                   *)
(***************************************************************************)
EXTENDS Integers, Sequences, FiniteSets, TLC

\* ---------------------------------------------------------------- bounds
MaxRows == 3        \* rows of the caller's dataset
MaxHorizon == 2     \* largest horizon a caller passes
MaxLen == 2         \* longest horizon list / quantile list
MaxCond == 2        \* rows of the conditioning frame

\* The missing value of a cell (pandas NaN); every real cell is >= 0.
NaN == -1

VARIABLES
    stage,            \* position in the pipeline
    in_data,          \* the caller's dataset
    in_indvar_l,      \* the caller's list of regressors
    in_horizon_l,     \* the caller's horizon list (typed arguments)
    in_quantile_l,    \* the caller's quantile list
    in_alpha,         \* the caller's confidence level
    in_cond,          \* the caller's conditioning frame
    depvar, indvar_l, horizon_l, data, depvar_l, regform_d, zdata,
    quantile_l, alpha, qfit_l, coeffs,
    cond_frame, proj_condquant,
    solver_calls,     \* log of the solver invocations of fit
    predict_calls,    \* log of the prediction invocations of proj
    err,              \* the exception the last operation raised
    heap,             \* identity of each mutable object -> its content now
    ns                \* per namespace, attribute name -> object identity

callerVars == <<in_data, in_indvar_l, in_horizon_l, in_quantile_l, in_alpha,
                in_cond>>
modVars == <<depvar, indvar_l, horizon_l, data, depvar_l, regform_d, zdata>>
fitVars == <<quantile_l, alpha, qfit_l, coeffs>>
projVars == <<cond_frame, proj_condquant>>
objVars == <<heap, ns>>
vars == <<stage, callerVars, modVars, fitVars, projVars, solver_calls,
          predict_calls, err, objVars>>

\* ------------------------------------------------------- generic helpers
Range(s) == {s[i] : i \in 1..Len(s)}

SeqsUpTo(S, n) == UNION {[1..k -> S] : k \in 0..n}

\* Insert x into the ascending sequence s, after the elements equal to it.
RECURSIVE Insert(_, _)
Insert(x, s) ==
    IF s = <<>> THEN <<x>>
    ELSE IF x < Head(s) THEN <<x>> \o s
    ELSE <<Head(s)>> \o Insert(x, Tail(s))

\* Python's sorted(): a new list, ascending, duplicates kept.
RECURSIVE sorted(_)
sorted(s) == IF s = <<>> THEN <<>> ELSE Insert(Head(s), sorted(Tail(s)))

\* Python's zip(): pairs up to the shorter of the two lists.
Min(a, b) == IF a < b THEN a ELSE b
zip(a, b) == [i \in 1..Min(Len(a), Len(b)) |-> <<a[i], b[i]>>]

\* ------------------------------------------------------------ data frames
EmptyFrame == [index |-> <<>>, columns |-> <<>>, col |-> <<>>]

NRows(df) == Len(df.index)

\* df[names]: the listed columns, in the listed order.
SelectCols(df, names) ==
    [index |-> df.index, columns |-> names,
     col |-> [c \in Range(names) |-> df.col[c]]]

RowCompleteDepvarOnly(df, i) == df.col[df.columns[1]][i] # NaN

\* Row i of df has no missing cell.
RowComplete(df, i) == \A c \in Range(df.columns) : df.col[c][i] # NaN

\* The positions of the rows that dropna keeps, ascending.
RECURSIVE KeptFrom(_, _)
KeptFrom(df, i) ==
    IF i > NRows(df) THEN <<>>
    ELSE (IF RowComplete(df, i) THEN <<i>> ELSE <<>>) \o KeptFrom(df, i + 1)

\* df.iloc[pos]: the rows at the given positions.
TakeRows(df, pos) ==
    [index |-> [k \in 1..Len(pos) |-> df.index[pos[k]]],
     columns |-> df.columns,
     col |-> [c \in Range(df.columns) |->
                 [k \in 1..Len(pos) |-> df.col[c][pos[k]]]]]

\* DataFrame.dropna(): the rows with no missing cell, in their order.
dropna(df) == TakeRows(df, KeptFrom(df, 1))

shiftWrongWay(s, periods) ==
    [i \in 1..Len(s) |->
        IF i + periods >= 1 /\ i + periods <= Len(s)
        THEN s[i + periods] ELSE NaN]

\* Series.shift(periods): the cell at position i is the one that was at
\* position i - periods; positions with no source cell are missing.
shift(s, periods) ==
    [i \in 1..Len(s) |->
        IF i - periods >= 1 /\ i - periods <= Len(s)
        THEN s[i - periods] ELSE NaN]

\* df[name] = s: replaces the column, or appends it as the last column.
SetCol(df, name, s) ==
    [index |-> df.index,
     columns |-> IF name \in Range(df.columns) THEN df.columns
                 ELSE Append(df.columns, name),
     col |-> [c \in Range(df.columns) \cup {name} |->
                 IF c = name THEN s ELSE df.col[c]]]

\* ------------------------------------------------------------- exceptions
NoError == [kind |-> "none", msg |-> "", args |-> <<>>]
AssertionError(m, a) == [kind |-> "AssertionError", msg |-> m, args |-> a]
ValueError(m) == [kind |-> "ValueError", msg |-> m, args |-> <<>>]
\* Whatever the solver raised: it carries nothing of the caller's loop.
SolverError == [kind |-> "SolverError", msg |-> "raised by quantreg.fit",
                args |-> <<>>]

\* ------------------------------------------------------- QuantileProj
\* A horizon argument as Python sees it: its type and its value.
IntArg(v) == [type |-> "int", val |-> v]
FloatArg(v) == [type |-> "float", val |-> v]

\* The list the code iterates on once every element has passed isinstance.
Vals(args) == [i \in 1..Len(args) |-> args[i].val]

\* f'{depvar}_fwd_{h}'
fname(dv, h) == dv \o "_fwd_" \o ToString(h)

\* __reg_formula: 'ldepvar ~ v1 + v2 + ...' kept as its two sides.
reg_formula(ldepvar, ivs) == [lhs |-> ldepvar, rhs |-> ivs]

\* [x for x in names if x not in columns]
NotIn(names, columns) == SelectSeq(names, LAMBDA x : x \notin Range(columns))

\* __quantilemod_unittest: the first assertion that fails, or NoError.
quantilemod_unittest(dv, ivs, df, hargs) ==
    IF \E i \in 1..Len(hargs) : hargs[i].type # "int"
    THEN AssertionError("horizons should be integer", <<>>)
    ELSE IF Len(NotIn(<<dv>> \o ivs, df.columns)) # 0
    THEN AssertionError("f{mv_l} are not in data columns", <<>>)
    ELSE NoError

\* The loop of lines 85-92 from list position i on: acc is the pair
\* [depvar_l, data] built so far.
RECURSIVE ForwardLoop(_, _, _, _)
ForwardLoop(dv, hl, i, acc) ==
    IF i > Len(hl) THEN acc
    ELSE LET h == hl[i]
             a0 == IF h = 0
                   THEN [acc EXCEPT !.depvar_l = Append(@, dv)]
                   ELSE acc
             a1 == IF h > 0
                   THEN [depvar_l |-> Append(a0.depvar_l, fname(dv, h)),
                         data |-> SetCol(a0.data, fname(dv, h),
                                         shift(a0.data.col[dv], -h))]
                   ELSE a0
         IN ForwardLoop(dv, hl, i + 1, a1)

\* zscore applied along each row: the values are real numbers and no later
\* stage reads them; the frame keeps the shape of data.
zscore_rows(df) == [index |-> df.index, columns |-> df.columns]

\* ------------------------------------------------------------- the inputs
DepVar == "y"
ColumnNames == <<"y", "x", "z">>

\* Datasets of n rows labelled 1..n: y is 10*i or missing, x is i or
\* missing, z is always present.
FramesOfLen(n) ==
    {[index |-> [i \in 1..n |-> i],
      columns |-> ColumnNames,
      col |-> [c \in Range(ColumnNames) |->
                 [i \in 1..n |->
                    IF c = "y" THEN (IF i \in my THEN NaN ELSE 10 * i)
                    ELSE IF c = "x" THEN (IF i \in mx THEN NaN ELSE i)
                    ELSE 0]]] :
        my \in SUBSET (1..n), mx \in SUBSET (1..n)}

Datasets == UNION {FramesOfLen(n) : n \in 0..MaxRows}

\* The datasets the whole pipeline is run on: for each row count the
\* complete frame and the frame with y missing in its first row and x
\* missing in its last row.
SampleDatasets ==
    {df \in Datasets :
        \/ \A i \in 1..NRows(df) : df.col["y"][i] # NaN /\ df.col["x"][i] # NaN
        \/ /\ NRows(df) >= 1
           /\ \A i \in 1..NRows(df) :
                 /\ (df.col["y"][i] = NaN) <=> (i = 1)
                 /\ (df.col["x"][i] = NaN) <=> (i = NRows(df))}

IndvarLists == {<<"z">>, <<"z", "x">>, <<"x", "w">>}

HorizonArgs == {IntArg(v) : v \in (-1)..MaxHorizon} \cup {FloatArg(1)}
HorizonLists == SeqsUpTo(HorizonArgs, MaxLen)

\* ------------------------------------------------------ objects and names
\* The variables above hold each attribute's value as its stage assigned
\* it.  Python binds names to objects: heap holds the content each object
\* has now, and ns the object each name is bound to, in the caller's
\* arguments (caller) and in the __dict__ of the three stages' objects.
NoNames == [caller |-> <<>>, mod |-> <<>>, fit |-> <<>>, proj |-> <<>>]

\* The object id is created or written in place: its content becomes v.
Store(h, id, v) == [x \in DOMAIN h \cup {id} |-> IF x = id THEN v ELSE h[x]]

\* The writes ws, each [id, val], applied in program order.
RECURSIVE StoreAll(_, _)
StoreAll(h, ws) ==
    IF ws = <<>> THEN h
    ELSE StoreAll(Store(h, Head(ws).id, Head(ws).val), Tail(ws))

\* d.update(src): the names of src are bound in d to the same objects.
dict_update(d, src) ==
    [k \in DOMAIN d \cup DOMAIN src |-> IF k \in DOMAIN src THEN src[k]
                                        ELSE d[k]]

\* sorted(x), list(), pd.concat(...): the result is an object of its own.
new_object(src, fresh) == fresh

frame_no_copy(src, fresh) == src

\* data[[...]].dropna().copy(): a frame of its own, not the caller's.
frame_copy(src, fresh) == fresh

\* The names QuantileProj.__init__ binds (lines 73-98).  depvar is a string
\* and immutable; indvar_l is the caller's list itself.
mod_names ==
    [indvar_l |-> "arg.indvar_l",
     horizon_l |-> new_object("arg.horizon_l", "mod.horizon_l"),
     data |-> frame_copy("arg.data", "mod.data"),
     depvar_l |-> new_object("", "mod.depvar_l"),
     regform_d |-> new_object("", "mod.regform_d"),
     zdata |-> new_object("mod.data", "mod.zdata")]

\* The names QuantileFit.__init__ binds: all of the builder's (line 156),
\* then its own (lines 160-164).  alpha is a number.
fit_names(m) ==
    dict_update(dict_update(<<>>, m),
                [quantile_l |-> new_object("arg.quantile_l", "fit.quantile_l"),
                 qfit_l |-> new_object("", "fit.qfit_l"),
                 coeffs |-> new_object("", "fit.coeffs")])

\* The names QuantileProjection.__init__ binds: all of the fit's (line
\* 257), the caller's conditioning frame itself (line 261) and the table.
proj_names(f, c) ==
    dict_update(dict_update(<<>>, f),
                [cond_frame |-> c.cond_frame,
                 proj_condquant |-> new_object("", "proj.proj_condquant")])

\* ------------------------------------------------------------------ Init
Init ==
    /\ stage = "start"
    /\ in_data = EmptyFrame
    /\ in_indvar_l = <<>>
    /\ in_horizon_l = <<>>
    /\ in_quantile_l = <<>>
    /\ in_alpha = 0
    /\ in_cond = EmptyFrame
    /\ depvar = ""
    /\ indvar_l = <<>>
    /\ horizon_l = <<>>
    /\ data = EmptyFrame
    /\ depvar_l = <<>>
    /\ regform_d = <<>>
    /\ zdata = <<>>
    /\ quantile_l = <<>>
    /\ alpha = 0
    /\ qfit_l = <<>>
    /\ coeffs = <<>>
    /\ cond_frame = EmptyFrame
    /\ proj_condquant = <<>>
    /\ solver_calls = <<>>
    /\ predict_calls = <<>>
    /\ err = NoError
    /\ heap = <<>>
    /\ ns = NoNames

\* QuantileProj.__init__(depvar, indvar_l, data, horizon_l), the dataset
\* drawn from DS.
BuildFrom(DS) ==
    /\ stage = "start"
    /\ \E df \in DS, ivs \in IndvarLists, hargs \in HorizonLists :
        LET e == quantilemod_unittest(DepVar, ivs, df, hargs)
            clean == dropna(SelectCols(df, <<DepVar>> \o ivs))
            fwd == ForwardLoop(DepVar, Vals(hargs), 1,
                               [depvar_l |-> <<>>, data |-> clean])
            args == [data |-> "arg.data", indvar_l |-> "arg.indvar_l",
                     horizon_l |-> "arg.horizon_l"]
            h0 == StoreAll(heap, <<[id |-> args.data, val |-> df],
                                   [id |-> args.indvar_l, val |-> ivs],
                                   [id |-> args.horizon_l, val |-> hargs]>>)
        IN /\ in_data' = df
           /\ in_indvar_l' = ivs
           /\ in_horizon_l' = hargs
           /\ IF e # NoError
              THEN /\ stage' = "build_error"
                   /\ err' = e
                   /\ heap' = h0
                   /\ ns' = [ns EXCEPT !.caller = args]
                   /\ UNCHANGED modVars
              ELSE /\ stage' = "built"
                   /\ err' = NoError
                   /\ depvar' = DepVar
                   /\ indvar_l' = ivs
                   /\ horizon_l' = sorted(Vals(hargs))
                   /\ depvar_l' = fwd.depvar_l
                   /\ data' = fwd.data
                   /\ regform_d' = [dv \in Range(fwd.depvar_l) |->
                                       reg_formula(dv, ivs)]
                   /\ zdata' = zscore_rows(fwd.data)
                   /\ ns' = [ns EXCEPT !.caller = args, !.mod = mod_names]
                   /\ heap' = StoreAll(h0,
                        <<[id |-> mod_names.horizon_l,
                           val |-> sorted(Vals(hargs))],
                          [id |-> mod_names.data, val |-> clean],
                          [id |-> mod_names.depvar_l, val |-> <<>>],
                          \* lines 86-92 append and assign in place
                          [id |-> mod_names.depvar_l, val |-> fwd.depvar_l],
                          [id |-> mod_names.data, val |-> fwd.data],
                          [id |-> mod_names.regform_d,
                           val |-> [dv \in Range(fwd.depvar_l) |->
                                       reg_formula(dv, ivs)]],
                          [id |-> mod_names.zdata,
                           val |-> zscore_rows(fwd.data)]>>)
    /\ UNCHANGED <<in_quantile_l, in_alpha, in_cond, fitVars, projVars,
                   solver_calls, predict_calls>>

\* ------------------------------------------------------- QuantileFit
\* __quantilefit_unittest: the first assertion that fails, or NoError.
quantilefit_unittest(ql, a) ==
    IF ~(0 < a /\ a < 100)
    THEN AssertionError("level of confidence should be in (0,1)", <<>>)
    ELSE IF \E i \in 1..Len(ql) : ~(0 < ql[i] /\ ql[i] < 100)
    THEN AssertionError("quantile should be in (0,1)", <<>>)
    ELSE NoError

\* The rows the solver estimates on: patsy drops the rows with a missing
\* cell in a column of the formula.
UsedRows(f, df) ==
    Len(KeptFrom(SelectCols(df, <<f.lhs>> \o f.rhs), 1))

\* smf.quantreg(formula, data).fit(q=tau, ...): the fitted-model handle.
\* Its parameter vector has the Intercept and one entry per term.
quantreg_fit(f, df, tau) ==
    [formula |-> f, q |-> tau, nobs |-> UsedRows(f, df),
     params |-> <<"Intercept">> \o f.rhs]

\* The iterations of the two nested loops of __qfit_l, in order: the outer
\* loop runs over zip(horizon_l, depvar_l), the inner one over quantile_l.
qfit_plan(hl, dvl, rd, ql) ==
    LET pairs == zip(hl, dvl)
        m == Len(ql)
    IN [k \in 1..(Len(pairs) * m) |->
           LET p == pairs[((k - 1) \div m) + 1]
           IN [depvar |-> p[2], horizon |-> p[1],
               tau |-> ql[((k - 1) % m) + 1],
               formula |-> rd[p[2]]]]

SolverCall(it, raised) ==
    [formula |-> it.formula, q |-> it.tau, raised |-> raised]

qfit_loop_continue(plan, df, failAt) ==
    [calls |-> [k \in 1..Len(plan) |-> SolverCall(plan[k], k = failAt)],
     raised |-> failAt \in 1..Len(plan),
     qfit_l |-> <<>>]

\* __qfit_l: runs the plan; the solver raises at iteration failAt (0: at
\* none).  Nothing catches the exception, so the loop ends there and the
\* container built so far is lost.
qfit_loop(plan, df, failAt) ==
    LET raised == failAt \in 1..Len(plan)
        last == IF raised THEN failAt ELSE Len(plan)
    IN [calls |-> [k \in 1..last |-> SolverCall(plan[k], k = failAt)],
        raised |-> raised,
        qfit_l |-> IF raised THEN <<>>
                   ELSE [k \in 1..Len(plan) |->
                            [depvar |-> plan[k].depvar,
                             horizon |-> plan[k].horizon,
                             tau |-> plan[k].tau,
                             qfit |-> quantreg_fit(plan[k].formula, df,
                                                   plan[k].tau)]]]

\* pd.concat of a non-empty list of frames: their rows, block after block.
RECURSIVE pd_concat(_)
pd_concat(frames) ==
    IF frames = <<>> THEN <<>> ELSE Head(frames) \o pd_concat(Tail(frames))

\* The frame __coeffs makes of one fit record: one row per parameter,
\* indexed by the parameter's name and tagged with tau and horizon.
coeffs_block(qf) ==
    [i \in 1..Len(qf.qfit.params) |->
        [index |-> qf.qfit.params[i], tau |-> qf.tau,
         horizon |-> qf.horizon]]

\* __coeffs: the frames of all fit records, concatenated.
coeffs_of(ql) == pd_concat([k \in 1..Len(ql) |-> coeffs_block(ql[k])])

QuantileVals == {0, 25, 50}
QuantileLists == SeqsUpTo(QuantileVals, MaxLen)
Alphas == {10, 100}

\* QuantileProj.fit(quantile_l, alpha) -> QuantileFit.__init__
Fit ==
    /\ stage = "built"
    /\ \E ql \in QuantileLists, a \in Alphas :
        LET e == quantilefit_unittest(ql, a)
            plan == qfit_plan(horizon_l, depvar_l, regform_d, sorted(ql))
            args == dict_update(ns.caller, [quantile_l |-> "arg.quantile_l"])
            h0 == Store(heap, args.quantile_l, ql)
            names == fit_names(ns.mod)
        IN /\ in_quantile_l' = ql
           /\ in_alpha' = a
           /\ IF e # NoError
              THEN /\ stage' = "fit_error"
                   /\ err' = e
                   /\ heap' = h0
                   /\ ns' = [ns EXCEPT !.caller = args]
                   /\ UNCHANGED <<fitVars, solver_calls>>
              ELSE \E failAt \in 0..Len(plan) :
                   LET run == qfit_loop(plan, data, failAt)
                   IN /\ solver_calls' = run.calls
                      /\ IF run.raised
                         THEN /\ stage' = "fit_error"
                              /\ err' = SolverError
                              /\ heap' = h0
                              /\ ns' = [ns EXCEPT !.caller = args]
                              /\ UNCHANGED fitVars
                         ELSE IF run.qfit_l = <<>>
                         THEN \* pd.concat([]) in __coeffs
                              /\ stage' = "fit_error"
                              /\ err' = ValueError("No objects to concatenate")
                              /\ heap' = h0
                              /\ ns' = [ns EXCEPT !.caller = args]
                              /\ UNCHANGED fitVars
                         ELSE /\ stage' = "fitted"
                              /\ err' = NoError
                              /\ quantile_l' = sorted(ql)
                              /\ alpha' = a
                              /\ qfit_l' = run.qfit_l
                              /\ coeffs' = coeffs_of(run.qfit_l)
                              /\ ns' = [ns EXCEPT !.caller = args,
                                                  !.fit = names]
                              /\ heap' = StoreAll(h0,
                                   <<[id |-> names.quantile_l,
                                      val |-> sorted(ql)],
                                     [id |-> names.qfit_l,
                                      val |-> run.qfit_l],
                                     [id |-> names.coeffs,
                                      val |-> coeffs_of(run.qfit_l)]>>)
    /\ UNCHANGED <<in_data, in_indvar_l, in_horizon_l, in_cond, modVars,
                   projVars, predict_calls>>

\* ------------------------------------------------- QuantileProjection
quantileproj_unittest_none(ivs, cf) == NoError

\* __quantileproj_unittest: the assertion on the missing columns.
quantileproj_unittest(ivs, cf) ==
    LET mv_l == NotIn(ivs, cf.columns)
    IN IF Len(mv_l) # 0
       THEN AssertionError("not in conditioning frame columns", mv_l)
       ELSE NoError

\* qfit.get_prediction(exog=cond_frame).summary_frame(), re-indexed by the
\* conditioning frame's index and tagged: one row per conditioning row.
proj_block(qf, cf) ==
    [i \in 1..NRows(cf) |->
        [index |-> cf.index[i], tau |-> qf.tau, horizon |-> qf.horizon]]

\* __proj_cond_quant: the blocks of all fit records, concatenated.
proj_cond_quant(ql, cf) ==
    pd_concat([k \in 1..Len(ql) |-> proj_block(ql[k], cf)])

\* Conditioning frames: n complete rows labelled 7, 5, 9, ... (not sorted).
CondLabels == <<7, 5, 9, 3>>
CondColumnLists == {<<"x", "z">>, <<"z">>, <<>>}
CondFrames ==
    {[index |-> [i \in 1..n |-> CondLabels[i]],
      columns |-> cs,
      col |-> [c \in Range(cs) |-> [i \in 1..n |-> i]]] :
        n \in 0..MaxCond, cs \in CondColumnLists}

\* QuantileFit.proj(cond_vector) -> QuantileProjection.__init__
Proj ==
    /\ stage = "fitted"
    /\ \E cf \in CondFrames :
        LET e == quantileproj_unittest(indvar_l, cf)
            args == dict_update(ns.caller, [cond_frame |-> "arg.cond_frame"])
            h0 == Store(heap, args.cond_frame, cf)
            names == proj_names(ns.fit, args)
        IN /\ in_cond' = cf
           /\ IF e # NoError
              THEN /\ stage' = "proj_error"
                   /\ err' = e
                   /\ heap' = h0
                   /\ ns' = [ns EXCEPT !.caller = args]
                   /\ UNCHANGED <<projVars, predict_calls>>
              ELSE /\ stage' = "projected"
                   /\ err' = NoError
                   /\ cond_frame' = cf
                   /\ predict_calls' = [k \in 1..Len(qfit_l) |->
                                           [q |-> qfit_l[k].qfit.q,
                                            formula |-> qfit_l[k].qfit.formula]]
                   /\ proj_condquant' = proj_cond_quant(qfit_l, cf)
                   /\ ns' = [ns EXCEPT !.caller = args, !.proj = names]
                   /\ heap' = Store(h0, names.proj_condquant,
                                    proj_cond_quant(qfit_l, cf))
    /\ UNCHANGED <<in_data, in_indvar_l, in_horizon_l, in_quantile_l,
                   in_alpha, modVars, fitVars, solver_calls>>

\* The pipeline, on the sample datasets.
Build == BuildFrom(SampleDatasets)

Next == Build \/ Fit \/ Proj

Spec == Init /\ [][Next]_vars

\* The specification builder alone, on every dataset within the bounds.
BuildAny == BuildFrom(Datasets)

NextBuild == BuildAny

SpecBuild == Init /\ [][NextBuild]_vars

\* ============================================================ the claims
Built == stage \notin {"start", "build_error"}
Fitted == stage \in {"fitted", "projected", "proj_error"}

IsNonNegInt(a) == a.type = "int" /\ a.val >= 0
AllNonNegInt(args) == \A i \in 1..Len(args) : IsNonNegInt(args[i])

\* The derived dependent variable the builder is to use for horizon h.
DerivedName(h) == IF h = 0 THEN depvar ELSE fname(depvar, h)

IsAscending(s) == \A i \in 1..(Len(s) - 1) : s[i] <= s[i + 1]

\* The iterations fit has to run, recomputed from the builder's state and
\* the caller's quantile list.
Planned == qfit_plan(horizon_l, depvar_l, regform_d, sorted(in_quantile_l))

\* C1: for every accepted list of non-negative horizons, in any caller
\* order, depvar_l is aligned with the sorted horizon list and every fit
\* record labelled h was estimated on the derived variable of h.
C1_DepvarAlignedWithHorizon ==
    (Built /\ AllNonNegInt(in_horizon_l)) =>
        /\ Len(depvar_l) = Len(horizon_l)
        /\ \A i \in 1..Len(depvar_l) : depvar_l[i] = DerivedName(horizon_l[i])
        /\ \A k \in 1..Len(qfit_l) :
              /\ qfit_l[k].depvar = DerivedName(qfit_l[k].horizon)
              /\ qfit_l[k].qfit.formula.lhs = DerivedName(qfit_l[k].horizon)

\* C2: a horizon list with an element that is not a non-negative integer
\* is rejected by an assertion before anything is built.
C2_BadHorizonRejected ==
    (stage # "start" /\ ~AllNonNegInt(in_horizon_l)) =>
        /\ stage = "build_error"
        /\ err.kind = "AssertionError"
        /\ data = EmptyFrame
        /\ depvar_l = <<>>
        /\ regform_d = <<>>

\* C3: after a successful fit there is one fit record per (horizon,
\* quantile) pair of the caller's lists and the coefficient table has
\* |horizons| x |quantiles| x (|indvars| + 1) rows, one block of
\* |indvars| + 1 rows per record.
C3_CoeffRowCount ==
    Fitted =>
        LET p == Len(in_indvar_l) + 1
        IN /\ Len(qfit_l) = Len(in_horizon_l) * Len(in_quantile_l)
           /\ Len(coeffs) = Len(in_horizon_l) * Len(in_quantile_l) * p
           /\ \A r \in 1..Len(coeffs) :
                 LET k == ((r - 1) \div p) + 1
                 IN k <= Len(qfit_l) =>
                       /\ coeffs[r].tau = qfit_l[k].tau
                       /\ coeffs[r].horizon = qfit_l[k].horizon

\* C4: after a successful projection the forecast table has |horizons| x
\* |quantiles| x |conditioning rows| rows, one block per fit record in
\* record order, each block in the conditioning frame's row order with
\* the conditioning frame's index.
C4_ForecastRowCount ==
    stage = "projected" =>
        LET n == NRows(in_cond)
        IN /\ Len(proj_condquant)
                 = Len(in_horizon_l) * Len(in_quantile_l) * n
           /\ \A r \in 1..Len(proj_condquant) :
                 LET k == ((r - 1) \div n) + 1
                     i == ((r - 1) % n) + 1
                 IN /\ proj_condquant[r].index = in_cond.index[i]
                    /\ k <= Len(qfit_l) =>
                          /\ proj_condquant[r].tau = qfit_l[k].tau
                          /\ proj_condquant[r].horizon = qfit_l[k].horizon

\* C5: projecting with a conditioning frame that lacks a regressor of the
\* fit fails with an assertion naming the missing columns, before any
\* prediction is asked of a fitted model, and no forecast table is made.
C5_MissingColumnsRejected ==
    (stage \in {"projected", "proj_error"}
       /\ \E i \in 1..Len(indvar_l) : indvar_l[i] \notin Range(in_cond.columns))
    =>
        /\ stage = "proj_error"
        /\ err.kind = "AssertionError"
        /\ err.args = SelectSeq(indvar_l,
                                LAMBDA v : v \notin Range(in_cond.columns))
        /\ predict_calls = <<>>
        /\ proj_condquant = <<>>
        /\ cond_frame = EmptyFrame

C5_Witness ==
    /\ stage = "proj_error"
    /\ Len(err.args) >= 1
    /\ Len(err.args) < Len(indvar_l)
    /\ NRows(in_cond) >= 1
    /\ Len(qfit_l) >= 2

SolverRaised == stage = "fit_error" /\ err.kind = "SolverError"

\* The failing solver call is the last one made, and the calls made are
\* the first iterations of the plan, in order.
FailedAtLastCall ==
    /\ solver_calls # <<>>
    /\ Len(solver_calls) <= Len(Planned)
    /\ \A k \in 1..Len(solver_calls) :
          /\ solver_calls[k].raised = (k = Len(solver_calls))
          /\ solver_calls[k].q = Planned[k].tau
          /\ solver_calls[k].formula = Planned[k].formula

\* C6 (as stated): when the solver raises for a pair, fit fails at that
\* pair with an error identifying its horizon and quantile, attempts no
\* later pair and hands out neither fit records nor a coefficient table.
C6_ErrorIdentifiesPair ==
    SolverRaised =>
        /\ FailedAtLastCall
        /\ err.args = <<Planned[Len(solver_calls)].horizon,
                        Planned[Len(solver_calls)].tau>>
        /\ qfit_l = <<>>
        /\ coeffs = <<>>

\* C6 (amended): when the solver raises for a pair, fit fails at that pair
\* with the solver's own exception, which carries neither horizon nor
\* quantile; no later pair is attempted and neither fit records nor a
\* coefficient table are handed out.
C6_AbortsAtFirstFailure ==
    SolverRaised =>
        /\ FailedAtLastCall
        /\ err = SolverError
        /\ qfit_l = <<>>
        /\ coeffs = <<>>
        /\ quantile_l = <<>>

C6_Witness ==
    /\ SolverRaised
    /\ Len(solver_calls) >= 2
    /\ Len(solver_calls) < Len(Planned)

\* C7: fit with an empty quantile list, a quantile outside (0,1) or a
\* confidence level outside (0,1) fails with an assertion before any
\* solver call; every record of a successful fit has tau inside (0,1).
C7_BadQuantilesRejected ==
    /\ (stage \in {"fit_error", "fitted", "projected", "proj_error"}
          /\ \/ in_quantile_l = <<>>
             \/ \E i \in 1..Len(in_quantile_l) :
                   ~(0 < in_quantile_l[i] /\ in_quantile_l[i] < 100)
             \/ ~(0 < in_alpha /\ in_alpha < 100))
       => /\ stage = "fit_error"
          /\ err.kind = "AssertionError"
          /\ solver_calls = <<>>
    /\ Fitted => \A k \in 1..Len(qfit_l) :
                    0 < qfit_l[k].tau /\ qfit_l[k].tau < 100

\* C8: for every horizon h > 0 of the list, the column depvar_fwd_h of the
\* builder's dataset holds at row i the dependent variable of row i + h,
\* and is missing on the last h rows; for h = 0 no column is derived and
\* the dependent variable itself is the derived variable.
C8_ForwardShift ==
    Built =>
        LET n == NRows(data)
            hs == {in_horizon_l[i].val : i \in 1..Len(in_horizon_l)}
        IN /\ \A h \in hs : h > 0 =>
                 /\ fname(depvar, h) \in Range(data.columns)
                 /\ fname(depvar, h) \in Range(depvar_l)
                 /\ Len(data.col[fname(depvar, h)]) = n
                 /\ \A i \in 1..n :
                       data.col[fname(depvar, h)][i]
                          = IF i + h <= n THEN data.col[depvar][i + h]
                            ELSE NaN
           /\ Range(data.columns)
                 = {depvar} \cup Range(indvar_l)
                     \cup {fname(depvar, h) : h \in {g \in hs : g > 0}}
           /\ (0 \in hs) <=> (depvar \in Range(depvar_l))

C8_Witness ==
    /\ stage = "built"
    /\ NRows(data) = 2
    /\ NRows(in_data) = 3
    /\ Vals(in_horizon_l) = <<1, 0>>
    /\ data.col[fname(depvar, 1)] = <<data.col[depvar][2], NaN>>

\* C9: the cleaned dataset has no missing cell in the dependent variable
\* or a regressor, holds exactly the input rows complete in those columns,
\* in their order and with their values, so has at most as many rows.
C9_CleanedDataset ==
    Built =>
        LET used == Range(<<depvar>> \o indvar_l)
            Complete(i) == \A c \in used : in_data.col[c][i] # NaN
            pos == [k \in 1..NRows(data) |->
                       CHOOSE i \in 1..NRows(in_data) :
                           in_data.index[i] = data.index[k]]
        IN /\ \A k \in 1..NRows(data) : \A c \in used : data.col[c][k] # NaN
           /\ Range(data.index)
                 = {in_data.index[i] : i \in {j \in 1..NRows(in_data) :
                                                 Complete(j)}}
           /\ \A k \in 1..(NRows(data) - 1) : pos[k] < pos[k + 1]
           /\ \A k \in 1..NRows(data) : \A c \in used :
                 data.col[c][k] = in_data.col[c][pos[k]]
           /\ NRows(data) <= NRows(in_data)

C9_Witness ==
    /\ stage = "built"
    /\ NRows(in_data) = 3
    /\ data.index = <<1, 3>>
    /\ "x" \notin Range(indvar_l)
    /\ in_data.col["x"][3] = NaN

\* C10: the stored horizon and quantile lists are the caller's lists
\* sorted ascending, the fit records run over the (horizon, quantile)
\* pairs in lexicographic order, each pair once per occurrence, and the
\* blocks of the coefficient table follow the records.
C10_LexicographicOrder ==
    Fitted =>
        LET m == Len(quantile_l)
            p == Len(indvar_l) + 1
        IN /\ IsAscending(horizon_l)
           /\ IsAscending(quantile_l)
           /\ Len(horizon_l) = Len(in_horizon_l)
           /\ Len(quantile_l) = Len(in_quantile_l)
           /\ \A v \in Range(horizon_l) :
                 Cardinality({i \in 1..Len(horizon_l) : horizon_l[i] = v})
                    = Cardinality({i \in 1..Len(in_horizon_l) :
                                      in_horizon_l[i].val = v})
           /\ \A v \in Range(quantile_l) :
                 Cardinality({i \in 1..Len(quantile_l) : quantile_l[i] = v})
                    = Cardinality({i \in 1..Len(in_quantile_l) :
                                      in_quantile_l[i] = v})
           /\ Len(qfit_l) = Len(horizon_l) * m
           /\ \A k \in 1..Len(qfit_l) :
                 /\ qfit_l[k].horizon = horizon_l[((k - 1) \div m) + 1]
                 /\ qfit_l[k].tau = quantile_l[((k - 1) % m) + 1]
           /\ \A r \in 1..Len(coeffs) :
                 /\ coeffs[r].horizon = qfit_l[((r - 1) \div p) + 1].horizon
                 /\ coeffs[r].tau = qfit_l[((r - 1) \div p) + 1].tau

\* The objects a namespace shares with an earlier one: every name of the
\* earlier namespace is bound to the same object in the later one.
Shares(later, earlier) ==
    \A k \in DOMAIN earlier : k \in DOMAIN later /\ later[k] = earlier[k]

\* C11: no stage changes an object of the caller or of an earlier stage.
\* After building, the caller's dataset and horizon list are as passed;
\* after fit, the builder's dataset, derived-variable list, horizon list
\* and formula map are as built, though the fit object is bound to the
\* very same objects; after project, the fit's record list and coefficient
\* table and the caller's conditioning frame are as they were, though the
\* projection object is bound to the very same objects.
C11_NoStageMutatesEarlierData ==
    /\ stage # "start" =>
          /\ heap[ns.caller.data] = in_data
          /\ heap[ns.caller.horizon_l] = in_horizon_l
          /\ heap[ns.caller.indvar_l] = in_indvar_l
    /\ Built =>
          /\ heap[ns.mod.data] = data
          /\ heap[ns.mod.depvar_l] = depvar_l
          /\ heap[ns.mod.horizon_l] = horizon_l
          /\ heap[ns.mod.regform_d] = regform_d
          /\ ns.mod.data # ns.caller.data
          /\ ns.mod.horizon_l # ns.caller.horizon_l
    /\ Fitted =>
          /\ Shares(ns.fit, ns.mod)
          /\ heap[ns.fit.qfit_l] = qfit_l
          /\ heap[ns.fit.coeffs] = coeffs
          /\ heap[ns.fit.quantile_l] = quantile_l
    /\ stage \in {"projected", "proj_error"} =>
          heap[ns.caller.cond_frame] = in_cond
    /\ stage = "projected" =>
          /\ Shares(ns.proj, ns.fit)
          /\ ns.proj.cond_frame = ns.caller.cond_frame
          /\ heap[ns.proj.proj_condquant] = proj_condquant

C11_Witness ==
    /\ stage = "projected"
    /\ NRows(in_data) = 3
    /\ NRows(data) < NRows(in_data)
    /\ Vals(in_horizon_l) = <<1, 0>>
    /\ horizon_l = <<0, 1>>
    /\ fname(depvar, 1) \in Range(heap[ns.proj.data].columns)
    /\ fname(depvar, 1) \notin Range(heap[ns.caller.data].columns)
    /\ NRows(in_cond) >= 1
    /\ Len(heap[ns.proj.qfit_l]) >= 2
====
